---- MODULE Spec2Model ----
(***************************************************************************)
(* The user-management REST service: the handlers of src/routes/users.js   *)
(* and src/routes/health.js running concurrently against the users table   *)
(* of init.sql through a pooled persistence gateway.                       *)
(*                                                                         *)
(* A handler runs from one await to the next without interruption, so each *)
(* action is one such run: the arrival of a request up to its first await, *)
(* the continuation after getConnection, the statement executing in the    *)
(* store, and the continuation after the query or ping.                    *)
(***************************************************************************)
EXTENDS Integers, Sequences, FiniteSets, TLC

\* ---------------------------------------------------------------- bounds
\* Number of requests that can be in flight at once.
MaxReq == 2
\* Number of INSERT statements the store is asked to run in one behaviour.
MaxInserts == 2
\* Connections of the pool (the deployment documents 10; scaled down).
PoolSize == 2
\* Ticks of the wall clock in one behaviour.
MaxClock == 1

\* ------------------------------------------------------- program constants
\* name VARCHAR(255), email VARCHAR(255)
NameMaxLen == 255
EmailMaxLen == 255

Reqs == 1..MaxReq

\* ------------------------------------------------------------------ strings
\* A string is the sequence of its characters.
Repeat(c, n) == [i \in 1..n |-> c]

LongName == Repeat("a", NameMaxLen + 1)

\* A JSON body of POST /api/users: either field may be absent (undefined).
Names == {<<>>, <<"a">>, LongName}
Emails == {<<"a", "@", "b">>, <<"a", "@", "b", ".", "a", "b">>, <<"b", "@", "b", ".", "a", "b">>}

Bodies ==
  [hasName : {TRUE}, name : Names, hasEmail : {TRUE}, email : Emails]
  \cup [hasName : {FALSE}, name : {<<>>}, hasEmail : {TRUE}, email : Emails]
  \cup [hasName : {TRUE}, name : Names, hasEmail : {FALSE}, email : {<<>>}]
  \cup [hasName : {FALSE}, name : {<<>>}, hasEmail : {FALSE}, email : {<<>>}]

NoBody == [hasName |-> FALSE, name |-> <<>>, hasEmail |-> FALSE, email |-> <<>>]

\* ------------------------------------------------------------ validation
\* express-validator turns the field into a string first: undefined is "".
ToStr(has, s) == IF has THEN s ELSE <<>>

\* body('name').notEmpty()
NotEmpty(s) == Len(s) > 0

Positions(s, c) == {i \in 1..Len(s) : s[i] = c}

Max(S) == CHOOSE x \in S : \A y \in S : y <= x

\* Every dot-separated part of s is non-empty.
PartsNonEmpty(s) ==
  /\ Len(s) > 0
  /\ s[1] # "."
  /\ s[Len(s)] # "."
  /\ \A i \in 1..(Len(s) - 1) : ~(s[i] = "." /\ s[i + 1] = ".")

\* isFQDN of the domain part: at least two labels, none empty, and a top-level
\* label of two letters or more.
IsFQDN(d) ==
  /\ PartsNonEmpty(d)
  /\ Positions(d, ".") # {}
  /\ Len(d) - Max(Positions(d, ".")) >= 2
  /\ Positions(d, "@") = {}

\* body('email').isEmail(): the text after the last "@" is the domain, the text
\* before it the user part, which has no "@" and no empty dot-separated part.
IsEmail(s) ==
  /\ Positions(s, "@") # {}
  /\ LET at == Max(Positions(s, "@"))
         user == SubSeq(s, 1, at - 1)
         domain == SubSeq(s, at + 1, Len(s))
     IN /\ PartsNonEmpty(user)
        /\ Positions(user, "@") = {}
        /\ IsFQDN(domain)

FieldError(path) == [path |-> path, msg |-> "Invalid value", location |-> "body"]

\* The name chain left out of the route.
NameErrorsNone(b) == <<>>

NameErrors(b) ==
  IF NotEmpty(ToStr(b.hasName, b.name)) THEN <<>> ELSE <<FieldError("name")>>

\* The email chain left out of the route.
EmailErrorsNone(b) == <<>>

EmailErrors(b) ==
  IF IsEmail(ToStr(b.hasEmail, b.email)) THEN <<>> ELSE <<FieldError("email")>>

\* Only the first error is reported.
ValidationResultFirst(b) == IF NameErrors(b) # <<>> THEN NameErrors(b) ELSE EmailErrors(b)

\* validationResult(req).array(): the errors of both chains, in chain order.
ValidationResult(b) == NameErrors(b) \o EmailErrors(b)

\* -------------------------------------------------------------- the store
\* users(id AUTO_INCREMENT PRIMARY KEY, name NOT NULL, email UNIQUE NOT NULL,
\*       created_at DEFAULT CURRENT_TIMESTAMP)
Row(id, name, email, at) == [id |-> id, name |-> name, email |-> email, created_at |-> at]

\* The rows init.sql seeds.
SeedRows ==
  << Row(1, <<"J">>, <<"j", "@", "b", ".", "a", "b">>, 0),
     Row(2, <<"S">>, <<"s", "@", "b", ".", "a", "b">>, 0) >>

EmailUsed(table, email) == \E i \in 1..Len(table) : table[i].email = email

NoResult == [ok |-> FALSE, code |-> "none", insertId |-> 0, rows |-> <<>>]

Failure(code) == [ok |-> FALSE, code |-> code, insertId |-> 0, rows |-> <<>>]

\* The table without its UNIQUE constraint on email.
InsertResultNoUnique(table, id, name, email) ==
  IF Len(name) > NameMaxLen \/ Len(email) > EmailMaxLen THEN Failure("ER_DATA_TOO_LONG")
  ELSE [ok |-> TRUE, code |-> "ok", insertId |-> id, rows |-> <<>>]

\* INSERT INTO users (name, email) VALUES (?, ?): the outcome for the caller.
InsertResult(table, id, name, email) ==
  IF Len(name) > NameMaxLen \/ Len(email) > EmailMaxLen THEN Failure("ER_DATA_TOO_LONG")
  ELSE IF EmailUsed(table, email) THEN Failure("ER_DUP_ENTRY")
  ELSE [ok |-> TRUE, code |-> "ok", insertId |-> id, rows |-> <<>>]

\* The two parameters of the statement bound the wrong way round.
InsertTableSwapped(table, id, name, email, at) ==
  IF InsertResult(table, id, name, email).ok
  THEN Append(table, Row(id, email, name, at))
  ELSE table

\* REPLACE INTO users: a row with the same email is deleted, the new row added.
InsertTableReplacing(table, id, name, email, at) ==
  IF Len(name) > NameMaxLen \/ Len(email) > EmailMaxLen
  THEN table
  ELSE Append(SelectSeq(table, LAMBDA row : row.email # email), Row(id, name, email, at))

\* A table that stores the row of a statement it reports as a duplicate.
InsertTableAlways(table, id, name, email, at) ==
  IF Len(name) > NameMaxLen \/ Len(email) > EmailMaxLen
  THEN table
  ELSE Append(table, Row(id, name, email, at))

\* The table after the statement: one whole row more, or the same table.
InsertTable(table, id, name, email, at) ==
  IF InsertResult(table, id, name, email).ok
  THEN Append(table, Row(id, name, email, at))
  ELSE table

\* SELECT * FROM users
ProjectStar(row) == row

\* SELECT id, name, email FROM users
Project(row) == [id |-> row.id, name |-> row.name, email |-> row.email]

\* The SELECT with a LIMIT 1.
SelectResultLimit(table) ==
  [ok |-> TRUE, code |-> "ok", insertId |-> 0,
   rows |-> [i \in 1..(IF Len(table) > 1 THEN 1 ELSE Len(table)) |-> Project(table[i])]]

\* The SELECT answered from a copy of the table that lacks the latest row.
SelectResultBehind(table) ==
  [ok |-> TRUE, code |-> "ok", insertId |-> 0,
   rows |-> [i \in 1..(IF Len(table) > 0 THEN Len(table) - 1 ELSE 0) |-> Project(table[i])]]

SelectResult(table) ==
  [ok |-> TRUE, code |-> "ok", insertId |-> 0,
   rows |-> [i \in 1..Len(table) |-> Project(table[i])]]

\* A statement on the users table fails when init.sql was never run.
OnTable(exists, result) == IF exists THEN result ELSE Failure("ER_NO_SUCH_TABLE")

\* The probe written as a query on the users table.
PingResultSelect(table, exists) ==
  OnTable(exists, [ok |-> TRUE, code |-> "ok", insertId |-> 0, rows |-> <<>>])

\* connection.ping(): a round trip that reads no table.
PingResult(table, exists) == [ok |-> TRUE, code |-> "ok", insertId |-> 0, rows |-> <<>>]

\* Failures of the gateway that are not the statement's own.
ConnectErrors == {"ECONNREFUSED", "ETIMEDOUT"}
QueryErrors == {"ECONNRESET"}

\* ------------------------------------------------------------------- state
VARIABLES
  users,    \* the users table, in insertion order
  nextId,   \* the table's AUTO_INCREMENT counter
  inUse,    \* connections checked out of the pool
  clock,    \* the wall clock
  req,      \* the requests in flight, by slot
  issued,   \* the bodies of the 201 responses sent so far, in order
  initial,  \* the rows of the table when the service started
  tableExists, \* init.sql has been run against the store
  commits,  \* the INSERT statements that have taken effect so far
  lastList  \* the latest 200 response of GET /api/users since the last 201

vars == <<users, nextId, inUse, clock, req, issued, initial, tableExists, commits, lastList>>

NoResp == [status |-> 0, body |-> [none |-> TRUE]]

\* A slot without a request. Beside the request (method, path, body) and the
\* handler's position the record keeps what the request did: its getConnection,
\* query and release calls, the statement it issued, the rows its statement
\* added, and what the store and the clock showed when its statement ran.
IdleReq ==
  [kind |-> "none", pc |-> "idle", method |-> "", path |-> "", wellFormed |-> TRUE,
   body |-> NoBody, result |-> NoResult,
   resp |-> NoResp, acq |-> 0, qry |-> 0, released |-> 0, stmt |-> "none", ins |-> <<>>,
   dup |-> FALSE, since |-> 0, seen |-> 0, quiet |-> FALSE, at |-> 0,
   snap |-> <<>>, ver |-> 0, probed |-> 0,
   prev |-> [valid |-> FALSE, body |-> <<>>, seen |-> 0, ver |-> 0]]

NoList == [valid |-> FALSE, body |-> <<>>, seen |-> 0, ver |-> 0]

Init ==
  /\ tableExists \in BOOLEAN
  /\ initial \in (IF tableExists THEN {<<>>, SeedRows} ELSE {<<>>})
  /\ commits = 0
  /\ lastList = NoList
  /\ users = initial
  /\ nextId = Len(initial) + 1
  /\ inUse = 0
  /\ clock = 0
  /\ req = [r \in Reqs |-> IdleReq]
  /\ issued = <<>>

\* INSERT statements still to come from the requests in flight.
PendingInserts ==
  Cardinality({q \in Reqs : req[q].kind = "create" /\ req[q].pc \in {"getConnection", "query"}})

InsertBudget == (nextId - (Len(initial) + 1)) + PendingInserts < MaxInserts

\* No create is between its arrival and its response.
NoCreateInFlight ==
  \A q \in Reqs : req[q].kind = "create" => req[q].pc \in {"idle", "done"}

\* ------------------------------------------------------------ the server
\* A request is its method, its path and whether its JSON body parses. These
\* are the requests that go to no router; those of the three routes have
\* actions of their own.
Requests ==
  ({"GET"} \X {"/", "/app.js", "/foo"} \X {TRUE})
  \cup ({"POST"} \X {"/foo", "/api/health"} \X {TRUE})
  \cup ({"OPTIONS"} \X {"/foo"} \X {TRUE})
  \cup ({"POST"} \X {"/api/users", "/foo"} \X {FALSE})

\* A static middleware that finds a file for every path.
StaticFileAnyPath(path) ==
  CASE path \in {"/", "/index.html"} -> "index.html"
    [] OTHER -> "app.js"

\* The file of public/ that express.static serves for a path.
StaticFile(path) ==
  CASE path \in {"/", "/index.html"} -> "index.html"
    [] path = "/app.js" -> "app.js"
    [] OTHER -> "none"

\* The middleware or route that answers a request, in the order server.js
\* registers them: cors (which answers a preflight itself), express.json
\* (which fails on a body that does not parse), express.static, the two
\* routers, the route of "/", and the 404 handler.
Dispatch(method, path, wellFormed) ==
  IF method = "OPTIONS" THEN "preflight"
  ELSE IF ~wellFormed THEN "error"
  ELSE IF method = "GET" /\ StaticFile(path) # "none" THEN "static"
  ELSE IF method = "GET" /\ path = "/api/users" THEN "list"
  ELSE IF method = "POST" /\ path = "/api/users" THEN "create"
  ELSE IF method = "GET" /\ path = "/api/health" THEN "health"
  ELSE IF method = "GET" /\ path = "/" THEN "root"
  ELSE "notFound"

MethodOf(kind) == IF kind = "create" THEN "POST" ELSE "GET"
PathOf(kind) == IF kind = "health" THEN "/api/health" ELSE "/api/users"

Arrived(kind, b) ==
  [IdleReq EXCEPT !.kind = kind, !.body = b,
                  !.method = MethodOf(kind), !.path = PathOf(kind),
                  !.since = IF kind = "create" THEN Len(issued) ELSE 0,
                  !.at = IF kind = "health" THEN clock ELSE 0]

\* The number of parameters of the function registered last in server.js,
\* (err, req, res): Express takes a function for an error handler when it has 4.
ErrorHandlerArity == 3

HandlesErrors(arity) == arity = 4

\* The status body-parser gives the error of a body that does not parse.
ParseErrorStatus == 400

\* The answer to an error passed to next(): the registered error handler's,
\* or that of Express's own final handler, a page carrying the error's status
\* and, outside production, its stack.
ErrorOutcome(status, production) ==
  IF HandlesErrors(ErrorHandlerArity)
  THEN [status |-> 500, body |-> [error |-> "Internal Server Error"]]
  ELSE [status |-> status, body |-> [html |-> TRUE, stack |-> ~production]]

\* The page Express's own final handler sends when no middleware answers.
NotFoundResponseHtml == [status |-> 404, body |-> [html |-> TRUE, stack |-> FALSE]]

\* res.status(404).json({ error: 'Not Found' })
NotFoundResponse == [status |-> 404, body |-> [error |-> "Not Found"]]

\* The answer of the middleware and routes that do not go to the store.
Served(handler, path, production) ==
  CASE handler = "preflight" -> [status |-> 204, body |-> [none |-> TRUE]]
    [] handler = "error" -> ErrorOutcome(ParseErrorStatus, production)
    [] handler = "static" -> [status |-> 200, body |-> [file |-> StaticFile(path)]]
    [] handler = "root" -> [status |-> 200, body |-> [file |-> "index.html"]]
    [] OTHER -> NotFoundResponse

\* A request that no router takes is answered in the step it arrives in.
Serve(r, method, path, wellFormed, production) ==
  /\ req[r].pc = "idle"
  /\ LET handler == Dispatch(method, path, wellFormed)
     IN /\ handler \notin {"list", "create", "health"}
        /\ handler # "error" => production
        /\ req' = [req EXCEPT ![r] =
                     [IdleReq EXCEPT !.kind = handler, !.pc = "done",
                                     !.method = method, !.path = path,
                                     !.wellFormed = wellFormed,
                                     !.resp = Served(handler, path, production)]]
  /\ UNCHANGED <<users, nextId, inUse, clock, issued, initial, tableExists, commits, lastList>>

\* ------------------------------------------------------- POST /api/users
\* getConnection() of the pool: below its limit the pool hands out or opens a
\* connection (and opening may fail); at its limit the call waits for a release.
PoolHasRoom == inUse < PoolSize

\* The response the handler sends once validation has failed.
ValidationResponse(errors) == [status |-> 400, body |-> [errors |-> errors]]

\* The request arrives: the validation chains run, then the handler up to its
\* await of db.getConnection().
CreateUser(r, b) ==
  /\ req[r].pc = "idle"
  /\ Dispatch("POST", "/api/users", TRUE) = "create"
  /\ LET errors == ValidationResult(b)
     IN IF errors # <<>>
        THEN req' = [req EXCEPT ![r] =
                       [Arrived("create", b) EXCEPT !.pc = "done",
                                                    !.resp = ValidationResponse(errors)]]
        ELSE /\ InsertBudget
             /\ req' = [req EXCEPT ![r] =
                          [Arrived("create", b) EXCEPT !.pc = "getConnection", !.acq = 1]]
  /\ UNCHANGED <<users, nextId, inUse, clock, issued, initial, tableExists, commits, lastList>>

\* getConnection resolved: the handler issues the INSERT and awaits it.
CreateAcquired(r) ==
  /\ req[r].kind = "create"
  /\ req[r].pc = "getConnection"
  /\ PoolHasRoom
  /\ inUse' = inUse + 1
  /\ req' = [req EXCEPT ![r].pc = "query", ![r].qry = @ + 1, ![r].stmt = "INSERT"]
  /\ UNCHANGED <<users, nextId, clock, issued, initial, tableExists, commits, lastList>>

\* The body of the catch block of the users routes.
ErrorResponse(code) == [status |-> 500, body |-> [error |-> code]]

\* getConnection rejected: the catch block answers.
CreateAcquireFailed(r, e) ==
  /\ req[r].kind = "create"
  /\ req[r].pc = "getConnection"
  /\ PoolHasRoom
  /\ req' = [req EXCEPT ![r].pc = "done", ![r].resp = ErrorResponse(e)]
  /\ UNCHANGED <<users, nextId, inUse, clock, issued, initial, tableExists, commits, lastList>>

\* A counter that hands out the same value again.
NextAutoIncrementStuck(table, id, name, email) == id

\* The counter after the statement: a rejected duplicate has used up a value.
NextAutoIncrement(table, id, name, email) ==
  IF InsertResult(table, id, name, email).code = "ER_DATA_TOO_LONG" THEN id ELSE id + 1

\* The store runs the INSERT of request r.
InsertExec(r) ==
  /\ req[r].kind = "create"
  /\ req[r].pc = "query"
  /\ LET name == req[r].body.name
         email == req[r].body.email
         result == OnTable(tableExists, InsertResult(users, nextId, name, email))
         table == IF tableExists
                  THEN InsertTable(users, nextId, name, email, clock)
                  ELSE users
     IN /\ users' = table
        /\ nextId' = IF tableExists
                      THEN NextAutoIncrement(users, nextId, name, email)
                      ELSE nextId
        /\ commits' = IF result.ok THEN commits + 1 ELSE commits
        /\ req' = [req EXCEPT ![r].pc = "reply",
                              ![r].result = result,
                              ![r].dup = EmailUsed(users, email),
                              ![r].ins = SubSeq(table, Len(users) + 1, Len(table))]
  /\ UNCHANGED <<inUse, clock, issued, initial, tableExists, lastList>>

\* The response built from result.affectedRows instead of result.insertId.
CreatedBodyAffectedRows(result, b) == [id |-> 1, name |-> b.name, email |-> b.email]

\* res.status(201).json({ id: result.insertId, name, email })
CreatedBody(result, b) == [id |-> result.insertId, name |-> b.name, email |-> b.email]

\* The success answered with res.json, without status(201).
CreateResponseNoStatus(result, b) ==
  IF result.ok
  THEN [status |-> 200, body |-> CreatedBody(result, b)]
  ELSE ErrorResponse(result.code)

\* A handler whose code after the query throws: the catch block answers.
CreateResponseThrows(result, b) ==
  IF result.ok
  THEN ErrorResponse("TypeError")
  ELSE ErrorResponse(result.code)

CreateResponse(result, b) ==
  IF result.ok
  THEN [status |-> 201, body |-> CreatedBody(result, b)]
  ELSE ErrorResponse(result.code)

\* The connections checked out after the continuation of a query or ping:
\* release() is the statement after the await, so a rejection skips it.
AfterRelease(n, result) == IF result.ok THEN n - 1 ELSE n

\* The query settled: release and 201, or the catch block.
CreateReturn(r) ==
  /\ req[r].kind = "create"
  /\ req[r].pc = "reply"
  /\ inUse' = AfterRelease(inUse, req[r].result)
  /\ req' = [req EXCEPT ![r].pc = "done",
                        ![r].released = IF req[r].result.ok THEN @ + 1 ELSE @,
                        ![r].resp = CreateResponse(req[r].result, req[r].body)]
  /\ issued' = IF req[r].result.ok
               THEN Append(issued, CreatedBody(req[r].result, req[r].body))
               ELSE issued
  /\ lastList' = IF req[r].result.ok THEN NoList ELSE lastList
  /\ UNCHANGED <<users, nextId, clock, initial, tableExists, commits>>

\* -------------------------------------------------------- GET /api/users
ListUsers(r) ==
  /\ req[r].pc = "idle"
  /\ Dispatch("GET", "/api/users", TRUE) = "list"
  /\ req' = [req EXCEPT ![r] =
               [Arrived("list", NoBody) EXCEPT !.pc = "getConnection", !.acq = 1]]
  /\ UNCHANGED <<users, nextId, inUse, clock, issued, initial, tableExists, commits, lastList>>

ListAcquired(r) ==
  /\ req[r].kind = "list"
  /\ req[r].pc = "getConnection"
  /\ PoolHasRoom
  /\ inUse' = inUse + 1
  /\ req' = [req EXCEPT ![r].pc = "query", ![r].qry = @ + 1, ![r].stmt = "SELECT"]
  /\ UNCHANGED <<users, nextId, clock, issued, initial, tableExists, commits, lastList>>

ListAcquireFailed(r, e) ==
  /\ req[r].kind = "list"
  /\ req[r].pc = "getConnection"
  /\ PoolHasRoom
  /\ req' = [req EXCEPT ![r].pc = "done", ![r].resp = ErrorResponse(e)]
  /\ UNCHANGED <<users, nextId, inUse, clock, issued, initial, tableExists, commits, lastList>>

\* A SELECT that removes the rows it returns.
SelectExecConsuming(r) ==
  /\ req[r].kind = "list"
  /\ req[r].pc = "query"
  /\ users' = <<>>
  /\ req' = [req EXCEPT ![r].pc = "reply",
                        ![r].result = OnTable(tableExists, SelectResult(users)),
                        ![r].seen = Len(issued),
                        ![r].quiet = NoCreateInFlight,
                        ![r].snap = users,
                        ![r].ver = commits]
  /\ UNCHANGED <<nextId, inUse, clock, issued, initial, tableExists, commits, lastList>>

\* The store runs the SELECT of request r.
SelectExec(r) ==
  /\ req[r].kind = "list"
  /\ req[r].pc = "query"
  /\ req' = [req EXCEPT ![r].pc = "reply",
                        ![r].result = OnTable(tableExists, SelectResult(users)),
                        ![r].seen = Len(issued),
                        ![r].quiet = NoCreateInFlight,
                        ![r].snap = users,
                        ![r].ver = commits]
  /\ UNCHANGED <<users, nextId, inUse, clock, issued, initial, tableExists, commits, lastList>>

\* An empty result answered as "no users found".
ListResponseEmptyIsNotFound(result) ==
  IF result.ok
  THEN IF result.rows = <<>>
       THEN [status |-> 404, body |-> [error |-> "No users"]]
       ELSE [status |-> 200, body |-> result.rows]
  ELSE ErrorResponse(result.code)

\* A failed query answered as an empty list.
ListResponseSwallowed(result) == [status |-> 200, body |-> result.rows]

\* res.json(rows)
ListResponse(result) ==
  IF result.ok
  THEN [status |-> 200, body |-> result.rows]
  ELSE ErrorResponse(result.code)

\* A handler that, when its query failed, asks for a connection again.
ListReturnRetrying(r) ==
  /\ req[r].kind = "list"
  /\ req[r].pc = "reply"
  /\ inUse' = AfterRelease(inUse, req[r].result)
  /\ req' = IF req[r].result.ok
            THEN [req EXCEPT ![r].pc = "done",
                             ![r].released = @ + 1,
                             ![r].resp = ListResponse(req[r].result),
                             ![r].prev = lastList]
            ELSE [req EXCEPT ![r].pc = "getConnection", ![r].acq = @ + 1]
  /\ lastList' = IF req[r].result.ok
                 THEN [valid |-> TRUE, body |-> ListResponse(req[r].result).body,
                       seen |-> req[r].seen, ver |-> req[r].ver]
                 ELSE lastList
  /\ UNCHANGED <<users, nextId, clock, issued, initial, tableExists, commits>>

ListReturn(r) ==
  /\ req[r].kind = "list"
  /\ req[r].pc = "reply"
  /\ inUse' = AfterRelease(inUse, req[r].result)
  /\ req' = [req EXCEPT ![r].pc = "done",
                        ![r].released = IF req[r].result.ok THEN @ + 1 ELSE @,
                        ![r].resp = ListResponse(req[r].result),
                        ![r].prev = lastList]
  /\ lastList' = IF ListResponse(req[r].result).status = 200
                 THEN [valid |-> TRUE, body |-> ListResponse(req[r].result).body,
                       seen |-> req[r].seen, ver |-> req[r].ver]
                 ELSE lastList
  /\ UNCHANGED <<users, nextId, clock, issued, initial, tableExists, commits>>

\* ------------------------------------------------------- GET /api/health
HealthCheck(r) ==
  /\ req[r].pc = "idle"
  /\ Dispatch("GET", "/api/health", TRUE) = "health"
  /\ req' = [req EXCEPT ![r] =
               [Arrived("health", NoBody) EXCEPT !.pc = "getConnection", !.acq = 1]]
  /\ UNCHANGED <<users, nextId, inUse, clock, issued, initial, tableExists, commits, lastList>>

HealthAcquired(r) ==
  /\ req[r].kind = "health"
  /\ req[r].pc = "getConnection"
  /\ PoolHasRoom
  /\ inUse' = inUse + 1
  /\ req' = [req EXCEPT ![r].pc = "query", ![r].qry = @ + 1, ![r].stmt = "PING"]
  /\ UNCHANGED <<users, nextId, clock, issued, initial, tableExists, commits, lastList>>

UnhealthyResponse(code) ==
  [status |-> 503, body |-> [status |-> "unhealthy", error |-> code]]

HealthAcquireFailed(r, e) ==
  /\ req[r].kind = "health"
  /\ req[r].pc = "getConnection"
  /\ PoolHasRoom
  /\ req' = [req EXCEPT ![r].pc = "done", ![r].resp = UnhealthyResponse(e)]
  /\ UNCHANGED <<users, nextId, inUse, clock, issued, initial, tableExists, commits, lastList>>

\* The store answers the ping of request r.
PingExec(r) ==
  /\ req[r].kind = "health"
  /\ req[r].pc = "query"
  /\ req' = [req EXCEPT ![r].pc = "reply",
                        ![r].result = PingResult(users, tableExists),
                        ![r].probed = clock]
  /\ UNCHANGED <<users, nextId, inUse, clock, issued, initial, tableExists, commits, lastList>>

\* The catch block left out: every check answers healthy.
HealthResponseAlways(result, now) ==
  [status |-> 200, body |-> [status |-> "healthy", timestamp |-> now]]

\* The timestamp taken once, when the module was loaded.
HealthResponseCached(result, now) ==
  IF result.ok
  THEN [status |-> 200, body |-> [status |-> "healthy", timestamp |-> 0]]
  ELSE UnhealthyResponse(result.code)

\* res.json({ status: 'healthy', timestamp: new Date() })
HealthResponse(result, now) ==
  IF result.ok
  THEN [status |-> 200, body |-> [status |-> "healthy", timestamp |-> now]]
  ELSE UnhealthyResponse(result.code)

HealthReturn(r) ==
  /\ req[r].kind = "health"
  /\ req[r].pc = "reply"
  /\ inUse' = AfterRelease(inUse, req[r].result)
  /\ req' = [req EXCEPT ![r].pc = "done",
                        ![r].released = IF req[r].result.ok THEN @ + 1 ELSE @,
                        ![r].resp = HealthResponse(req[r].result, clock)]
  /\ UNCHANGED <<users, nextId, clock, issued, initial, tableExists, commits, lastList>>

\* ------------------------------------------------------------ environment
\* The query or ping of request r fails in the gateway: the store is untouched.
QueryFailed(r, e) ==
  /\ req[r].pc = "query"
  /\ req' = [req EXCEPT ![r].pc = "reply", ![r].result = Failure(e)]
  /\ UNCHANGED <<users, nextId, inUse, clock, issued, initial, tableExists, commits, lastList>>

\* The client has its response; the slot takes the next request.
Finish(r) ==
  /\ req[r].pc = "done"
  /\ req' = [req EXCEPT ![r] = IdleReq]
  /\ UNCHANGED <<users, nextId, inUse, clock, issued, initial, tableExists, commits, lastList>>

Tick ==
  /\ clock < MaxClock
  /\ clock' = clock + 1
  /\ UNCHANGED <<users, nextId, inUse, req, issued, initial, tableExists, commits, lastList>>

Next ==
  \/ \E r \in Reqs, b \in Bodies : CreateUser(r, b)
  \/ \E r \in Reqs : CreateAcquired(r)
  \/ \E r \in Reqs, e \in ConnectErrors : CreateAcquireFailed(r, e)
  \/ \E r \in Reqs : InsertExec(r)
  \/ \E r \in Reqs : CreateReturn(r)
  \/ \E r \in Reqs : ListUsers(r)
  \/ \E r \in Reqs : ListAcquired(r)
  \/ \E r \in Reqs, e \in ConnectErrors : ListAcquireFailed(r, e)
  \/ \E r \in Reqs : SelectExec(r)
  \/ \E r \in Reqs : ListReturn(r)
  \/ \E r \in Reqs : HealthCheck(r)
  \/ \E r \in Reqs : HealthAcquired(r)
  \/ \E r \in Reqs, e \in ConnectErrors : HealthAcquireFailed(r, e)
  \/ \E r \in Reqs : PingExec(r)
  \/ \E r \in Reqs : HealthReturn(r)
  \/ \E r \in Reqs, e \in QueryErrors : QueryFailed(r, e)
  \/ \E r \in Reqs, q \in Requests, production \in BOOLEAN :
       Serve(r, q[1], q[2], q[3], production)
  \/ \E r \in Reqs : Finish(r)

\* The service with the clock standing still: no handler reads the clock to
\* decide anything, so this is the specification of every property that is
\* not about a time.
Spec == Init /\ [][Next]_vars

\* The health route under a clock that advances.
NextTimed ==
  \/ \E r \in Reqs : HealthCheck(r)
  \/ \E r \in Reqs : HealthAcquired(r)
  \/ \E r \in Reqs, e \in ConnectErrors : HealthAcquireFailed(r, e)
  \/ \E r \in Reqs : PingExec(r)
  \/ \E r \in Reqs : HealthReturn(r)
  \/ \E r \in Reqs, e \in QueryErrors : QueryFailed(r, e)
  \/ \E r \in Reqs : Finish(r)
  \/ Tick

SpecTimed == Init /\ [][NextTimed]_vars

TypeOK ==
  /\ inUse \in 0..PoolSize
  /\ nextId \in 1..(Len(initial) + 1 + MaxInserts)
  /\ clock \in 0..MaxClock
  /\ \A r \in Reqs : req[r].pc \in {"idle", "getConnection", "query", "reply", "done"}

\* ------------------------------------------------------------- properties
\* What the claims call an invalid body, stated on the body itself.
NameInvalid(b) == ~b.hasName \/ b.name = <<>>
EmailInvalid(b) == ~b.hasEmail \/ ~IsEmail(b.email)
BodyInvalid(b) == NameInvalid(b) \/ EmailInvalid(b)

Answered(r, kind) == req[r].kind = kind /\ req[r].pc = "done"

RowsWithEmail(email) == {i \in 1..Len(users) : users[i].email = email}
RowsWithId(id) == {i \in 1..Len(users) : users[i].id = id}

\* The store ran the INSERT of request r (it was reachable for this request).
StatementRan(r) == req[r].result.code \in {"ok", "ER_DUP_ENTRY", "ER_DATA_TOO_LONG"}

\* C1: a POST /api/users with an invalid name or email is answered 400 in the
\* step it arrives in, without a getConnection call, without a query, and
\* without a row of its own in the table.
C1_InvalidCreateFailsFast ==
  \A r \in Reqs :
    (req[r].kind = "create" /\ BodyInvalid(req[r].body)) =>
      /\ req[r].pc = "done"
      /\ req[r].resp.status = 400
      /\ req[r].acq = 0
      /\ req[r].qry = 0
      /\ req[r].ins = <<>>

C1_Witness ==
  \E r \in Reqs :
    /\ Answered(r, "create")
    /\ req[r].resp.status = 400
    /\ EmailInvalid(req[r].body)
    /\ Len(users) > Len(initial)

\* C2: a create whose email is already in the table when its INSERT runs is
\* rejected by the store (as a duplicate, unless the name does not fit the
\* column), adds no row, is never answered 201, and leaves exactly one row
\* with that email.
C2_DuplicateEmailRejected ==
  \A r \in Reqs :
    (req[r].kind = "create" /\ req[r].dup) =>
      /\ ~req[r].result.ok
      /\ Len(req[r].body.name) <= NameMaxLen => req[r].result.code = "ER_DUP_ENTRY"
      /\ req[r].ins = <<>>
      /\ req[r].pc = "done" => req[r].resp.status # 201
      /\ Cardinality(RowsWithEmail(req[r].body.email)) = 1

C2_Witness ==
  \E r \in Reqs :
    /\ Answered(r, "create")
    /\ req[r].dup
    /\ req[r].result.code = "ER_DUP_ENTRY"
    /\ req[r].resp.status = 500

\* C3: a create whose INSERT violated the uniqueness of email is answered with
\* a client-side rejection (4xx), not with the 500 of the other persistence
\* failures, and has issued its INSERT once.
C3_DuplicateIsClientRejection ==
  \A r \in Reqs :
    (Answered(r, "create") /\ req[r].result.code = "ER_DUP_ENTRY") =>
      /\ req[r].resp.status \in 400..499
      /\ req[r].qry = 1

\* C4: a create with a valid body and a not-yet-used email whose INSERT the
\* store ran is answered 201 with an id that no other row and no other 201
\* response carries.
C4_FreshValidCreateSucceeds ==
  \A r \in Reqs :
    (/\ Answered(r, "create")
     /\ ~BodyInvalid(req[r].body)
     /\ StatementRan(r)
     /\ ~req[r].dup) =>
      /\ req[r].resp.status = 201
      /\ Cardinality(RowsWithId(req[r].resp.body.id)) = 1
      /\ Cardinality({i \in 1..Len(issued) : issued[i].id = req[r].resp.body.id}) = 1

\* C5: the body of a 201 response has exactly the fields id, name and email:
\* the name and email of the request and the id of the row this request
\* inserted.
C5_CreatedBodyEchoesRequest ==
  \A r \in Reqs :
    (Answered(r, "create") /\ req[r].resp.status = 201) =>
      /\ DOMAIN req[r].resp.body = {"id", "name", "email"}
      /\ req[r].resp.body.name = req[r].body.name
      /\ req[r].resp.body.email = req[r].body.email
      /\ Len(req[r].ins) = 1
      /\ req[r].resp.body.id = req[r].ins[1].id

C5_Witness ==
  \E r \in Reqs :
    /\ Answered(r, "create")
    /\ req[r].resp.status = 201
    /\ req[r].resp.body.id > 1

\* C6: a create answered 201 has added exactly one row to the table, a whole
\* row with the name and email of the request, and the row is in the table once.
C6_OneWholeRowPerSuccess ==
  \A r \in Reqs :
    (Answered(r, "create") /\ req[r].resp.status = 201) =>
      /\ Len(req[r].ins) = 1
      /\ DOMAIN req[r].ins[1] = {"id", "name", "email", "created_at"}
      /\ req[r].ins[1].name = req[r].body.name
      /\ req[r].ins[1].email = req[r].body.email
      /\ Cardinality({i \in 1..Len(users) : users[i] = req[r].ins[1]}) = 1
      /\ Cardinality(RowsWithEmail(req[r].body.email)) = 1

C6_Witness ==
  \E r \in Reqs :
    /\ Answered(r, "create")
    /\ req[r].resp.status = 201
    /\ Len(users) = Len(initial) + 2

\* C7: from an empty table, a list whose SELECT runs while no create is in
\* flight returns as many records as creates were answered 201, and each of
\* those creates has exactly one record, with the id, name and email of its
\* response.
C7_ListReturnsTheCreatedUsers ==
  \A r \in Reqs :
    (/\ Answered(r, "list")
     /\ req[r].resp.status = 200
     /\ initial = <<>>
     /\ req[r].quiet) =>
      LET rows == req[r].resp.body
      IN /\ Len(rows) = req[r].seen
         /\ \A i \in 1..req[r].seen :
              /\ Cardinality({j \in 1..Len(rows) : rows[j] = issued[i]}) = 1
              /\ Cardinality({j \in 1..Len(rows) :
                                /\ rows[j].name = issued[i].name
                                /\ rows[j].email = issued[i].email}) = 1

C7_Witness ==
  \E r \in Reqs :
    /\ Answered(r, "list")
    /\ req[r].resp.status = 200
    /\ initial = <<>>
    /\ req[r].quiet
    /\ req[r].seen = 2

\* C8: the rows of the table always have pairwise distinct ids, pairwise
\* distinct emails, a syntactically valid email and a non-empty name.
C8_TableInvariant ==
  \A i \in 1..Len(users) :
    /\ \A j \in 1..Len(users) :
         i # j => users[i].id # users[j].id /\ users[i].email # users[j].email
    /\ IsEmail(users[i].email)
    /\ users[i].name # <<>>

C8_Witness ==
  /\ Len(users) = Len(initial) + 2
  /\ \E r \in Reqs : Answered(r, "create") /\ req[r].resp.status = 500 /\ req[r].dup

\* C9: the errors of a 400 response name exactly the invalid fields, once
\* each: name and email when both are invalid, the one field otherwise.
C9_EveryInvalidFieldReported ==
  \A r \in Reqs :
    (Answered(r, "create") /\ req[r].resp.status = 400) =>
      LET errors == req[r].resp.body.errors
          invalid == (IF NameInvalid(req[r].body) THEN {"name"} ELSE {})
                       \cup (IF EmailInvalid(req[r].body) THEN {"email"} ELSE {})
      IN /\ {errors[i].path : i \in 1..Len(errors)} = invalid
         /\ Len(errors) = Cardinality(invalid)

C9_Witness ==
  \E r \in Reqs :
    /\ Answered(r, "create")
    /\ req[r].resp.status = 400
    /\ NameInvalid(req[r].body)
    /\ EmailInvalid(req[r].body)
    /\ Len(req[r].resp.body.errors) = 2

\* C10: a POST /api/users is answered 201, 400 or 500: 400 exactly when the
\* body is invalid, 201 when the body is valid and getConnection and the
\* INSERT both succeeded, and 500 in every other case.
C10_CreateStatus ==
  \A r \in Reqs :
    Answered(r, "create") =>
      LET status == req[r].resp.status
          acquired == req[r].qry = 1
          inserted == Len(req[r].ins) = 1 /\ req[r].result.ok
      IN /\ status \in {201, 400, 500}
         /\ status = 400 <=> BodyInvalid(req[r].body)
         /\ (~BodyInvalid(req[r].body) /\ acquired /\ inserted) => status = 201
         /\ (~BodyInvalid(req[r].body) /\ ~(acquired /\ inserted)) => status = 500

C10_Witness ==
  /\ \E r \in Reqs : Answered(r, "create") /\ req[r].resp.status = 201
  /\ \E r \in Reqs : Answered(r, "create") /\ req[r].resp.status = 500 /\ req[r].qry = 0

\* A 200 response of GET /api/users.
Listed(r) == Answered(r, "list") /\ req[r].resp.status = 200

IsPrefix(s, t) == Len(s) <= Len(t) /\ SubSeq(t, 1, Len(s)) = s

\* C11 as claimed: a list returns what the latest list before it returned
\* when no 201 of a create was sent between the SELECTs of the two.
C11_SameUnlessCreateCompleted ==
  \A r \in Reqs :
    (Listed(r) /\ req[r].prev.valid /\ req[r].prev.seen = req[r].seen) =>
      req[r].resp.body = req[r].prev.body

\* C11: two lists between whose SELECTs no INSERT took effect return the same
\* records, and the rows a list saw are still in the table, unchanged and in
\* the same places, after it.
C11_ListIdempotent ==
  \A r \in Reqs :
    Listed(r) =>
      /\ (req[r].prev.valid /\ req[r].prev.ver = req[r].ver) =>
           req[r].resp.body = req[r].prev.body
      /\ \A q \in Reqs :
           (Listed(q) /\ req[q].ver = req[r].ver) => req[q].resp.body = req[r].resp.body
      /\ IsPrefix(req[r].snap, users)

C11_Witness ==
  \E r \in Reqs :
    /\ Listed(r)
    /\ req[r].prev.valid
    /\ req[r].prev.ver = req[r].ver
    /\ req[r].ver > 0
    /\ Len(req[r].resp.body) > Len(initial)
    /\ Len(users) > Len(req[r].snap)

\* The request got its connection and the gateway carried its statement.
Reached(r) == req[r].qry = 1 /\ req[r].result.code \notin ({"none"} \cup QueryErrors)

\* C12: a list that got a connection and whose SELECT ran on the users table
\* is answered 200 with one {id, name, email} object per row the table had,
\* in the table's order; with no rows the answer is 200 and the empty list.
C12_ListAnswersEveryRow ==
  \A r \in Reqs :
    (Answered(r, "list") /\ Reached(r) /\ tableExists) =>
      /\ req[r].resp.status = 200
      /\ Len(req[r].resp.body) = Len(req[r].snap)
      /\ \A i \in 1..Len(req[r].snap) :
           req[r].resp.body[i] = [id |-> req[r].snap[i].id,
                                  name |-> req[r].snap[i].name,
                                  email |-> req[r].snap[i].email]

C12_Witness ==
  \E r \in Reqs :
    /\ Listed(r)
    /\ tableExists
    /\ req[r].snap = <<>>
    /\ req[r].resp.body = <<>>
    /\ Len(users) > 0

\* C13: a list whose getConnection or SELECT failed is answered 500 with a
\* body of the one field error, and a 200 is only ever the answer to a SELECT
\* that succeeded.
C13_ListFailureIs500 ==
  \A r \in Reqs :
    Answered(r, "list") =>
      /\ ~(req[r].qry = 1 /\ req[r].result.ok) =>
           /\ req[r].resp.status = 500
           /\ DOMAIN req[r].resp.body = {"error"}
      /\ req[r].resp.status = 200 => (req[r].qry = 1 /\ req[r].result.ok)

C13_Witness ==
  /\ \E r \in Reqs :
       /\ Answered(r, "list")
       /\ req[r].resp.status = 500
       /\ req[r].result.code \in QueryErrors
  /\ \E r \in Reqs :
       /\ Answered(r, "list")
       /\ req[r].resp.status = 500
       /\ req[r].qry = 0

\* C14: a health check is answered 200 "healthy" exactly when its own
\* getConnection and its own ping succeeded, and 503 "unhealthy" with the
\* error otherwise.
C14_HealthReflectsThisCall ==
  \A r \in Reqs :
    Answered(r, "health") =>
      LET ok == req[r].qry = 1 /\ req[r].result.ok
      IN /\ ok => /\ req[r].resp.status = 200
                  /\ req[r].resp.body.status = "healthy"
         /\ ~ok => /\ req[r].resp.status = 503
                   /\ req[r].resp.body.status = "unhealthy"
                   /\ req[r].resp.body.error \in (ConnectErrors \cup QueryErrors)

\* A healthy answer beside an unhealthy one.
C14_Witness ==
  \E r, q \in Reqs :
    /\ Answered(r, "health") /\ req[r].resp.status = 200
    /\ Answered(q, "health") /\ req[q].resp.status = 503

\* C15: the timestamp of a healthy response is a time of this request, not
\* before the request arrived and not before its ping was answered.
C15_TimestampOfThisCheck ==
  \A r \in Reqs :
    (Answered(r, "health") /\ req[r].resp.status = 200) =>
      /\ req[r].resp.body.timestamp >= req[r].at
      /\ req[r].resp.body.timestamp >= req[r].probed
      /\ req[r].resp.body.timestamp <= clock

\* A healthy check that arrived after the time an earlier one was answered at.
C15_Witness ==
  \E r, q \in Reqs :
    /\ Answered(r, "health") /\ req[r].resp.status = 200
    /\ Answered(q, "health") /\ req[q].resp.status = 200
    /\ req[q].resp.body.timestamp < req[r].at

\* What a health check may issue and must answer, whatever the table holds.
HealthOnlyPings ==
  \A r \in Reqs :
    req[r].kind = "health" =>
      /\ req[r].stmt \in {"none", "PING"}
      /\ req[r].ins = <<>>
      /\ (req[r].pc = "done" /\ Reached(r)) => req[r].resp.status = 200

\* A step of a health check leaves the table, its counter and its schema alone.
HealthStepKeepsTable ==
  \A r \in Reqs :
    ((req[r].kind = "health" \/ req'[r].kind = "health") /\ req'[r] # req[r]) =>
      /\ users' = users
      /\ nextId' = nextId
      /\ commits' = commits
      /\ tableExists' = tableExists

\* C16: a health check issues a ping and nothing else, no step of it changes
\* the users table, and once its connection and its ping succeeded it answers
\* 200 whether the table is empty, populated or missing.
C16_HealthIndependentOfTable == []HealthOnlyPings /\ [][HealthStepKeepsTable]_vars

\* A healthy answer from a store whose users table is missing, as a list call
\* of the same run found out.
C16_Witness ==
  \E r, q \in Reqs :
    /\ Answered(r, "health") /\ req[r].resp.status = 200 /\ req[r].stmt = "PING"
    /\ ~tableExists
    /\ Answered(q, "list") /\ req[q].result.code = "ER_NO_SUCH_TABLE"

\* The four routes the routers and server.js register.
NamedRoutes ==
  {<<"GET", "/api/health">>, <<"GET", "/api/users">>,
   <<"POST", "/api/users">>, <<"GET", "/">>}

\* The paths of the files in public/.
PublicFiles == {"/index.html", "/app.js"}

OnNoRoute(r) == <<req[r].method, req[r].path>> \notin NamedRoutes

StructuredNotFound(r) ==
  req[r].resp = [status |-> 404, body |-> [error |-> "Not Found"]]

\* C17 as stated: every answered request on none of the four routes has the
\* structured 404.
C17_UnmatchedIs404 ==
  \A r \in Reqs :
    (req[r].pc = "done" /\ OnNoRoute(r)) => StructuredNotFound(r)

NoRouteIs404 ==
  \A r \in Reqs :
    ( /\ req[r].pc = "done"
      /\ OnNoRoute(r)
      /\ req[r].method # "OPTIONS"
      /\ req[r].wellFormed
      /\ ~(req[r].method = "GET" /\ req[r].path \in PublicFiles) ) =>
        /\ StructuredNotFound(r)
        /\ req[r].acq = 0
        /\ req[r].stmt = "none"

\* The step that answers 404 touches nothing but the request's own slot.
NotFoundStepKeepsServer ==
  \A r \in Reqs :
    (req'[r].kind = "notFound" /\ req[r].kind # "notFound") =>
      /\ UNCHANGED <<users, nextId, inUse, tableExists, commits>>
      /\ \A q \in Reqs \ {r} : req'[q] = req[q]

\* C17: a request that is no CORS preflight, whose body parses, that asks for
\* no file of public/ and that is on none of the four routes is answered 404
\* with {error: "Not Found"}; it takes no connection and its step leaves the
\* store, the pool and the other requests as they were.
C17_NoRouteIs404 == []NoRouteIs404 /\ [][NotFoundStepKeepsServer]_vars

\* A POST to the health path is answered 404 while a create is served to 201.
C17_Witness ==
  \E r, q \in Reqs :
    /\ Answered(r, "notFound")
    /\ req[r].method = "POST" /\ req[r].path = "/api/health"
    /\ StructuredNotFound(r)
    /\ Answered(q, "create") /\ req[q].resp.status = 201

\* C18: every failure that reaches the error handling of the server is
\* answered 500 with {error: "Internal Server Error"}.
C18_ErrorsBecomeGeneric500 ==
  \A r \in Reqs :
    Answered(r, "error") =>
      req[r].resp = [status |-> 500, body |-> [error |-> "Internal Server Error"]]

\* Two answered requests of the same route with the same input that failed at
\* the same point of the handler.
SameRunButError(r, q) ==
  /\ req[r].pc = "done" /\ req[q].pc = "done"
  /\ req[r].kind \in {"list", "create"}
  /\ req[r].kind = req[q].kind
  /\ req[r].body = req[q].body
  /\ req[r].acq = req[q].acq
  /\ req[r].qry = req[q].qry
  /\ req[r].resp.status = 500 /\ req[q].resp.status = 500

\* C19: the body of a 500 of the users routes is the same whatever the text
\* of the persistence error was.
C19_BodyIndependentOfDriverError ==
  \A r, q \in Reqs :
    SameRunButError(r, q) => req[r].resp.body = req[q].resp.body

\* Request r holds a connection that its handler may still release.
Holding(r) == req[r].pc \in {"query", "reply"}

\* C20: no request is left waiting for ever. A request that waits in
\* getConnection is answered when the pool has room or a handler in flight
\* can still release a connection; with the pool at its limit and no handler
\* holding any of its connections, no continuation answers the request.
C20_NoRequestWaitsForever ==
  \A r \in Reqs :
    req[r].pc = "getConnection" =>
      \/ PoolHasRoom
      \/ \E q \in Reqs : Holding(q)

\* What one request has asked of the gateway so far.
AtMostOneAttempt ==
  \A r \in Reqs :
    /\ req[r].acq <= 1
    /\ req[r].qry <= req[r].acq
    /\ req[r].released <= req[r].qry
    /\ req[r].pc \in {"getConnection", "query", "reply"} => req[r].acq = 1
    /\ (req[r].pc = "done" /\ req[r].resp.status \in {500, 503}) => req[r].acq = 1

\* The handler's step after a failure is its one response, and a response
\* that was sent is not sent again.
FailureReportedOnce ==
  \A r \in Reqs :
    /\ (req[r].pc = "reply" /\ ~req[r].result.ok /\ req'[r] # req[r]) =>
         /\ req'[r].pc = "done"
         /\ req'[r].resp.status \in {500, 503}
         /\ req'[r].acq = req[r].acq /\ req'[r].qry = req[r].qry
    /\ (req[r].pc = "done" /\ req'[r] # req[r]) => req'[r] = IdleReq

\* C21: a request calls getConnection at most once and issues at most one
\* query or ping; after a failure the handler's next step is its one response
\* (500, or 503 for the health check), and then the request is over.
C21_NoRetry == []AtMostOneAttempt /\ [][FailureReportedOnce]_vars

\* A list whose SELECT failed in the store has answered 500 after one attempt.
C21_Witness ==
  \E r \in Reqs :
    /\ Answered(r, "list")
    /\ req[r].resp.status = 500
    /\ req[r].acq = 1 /\ req[r].qry = 1
    /\ ~req[r].result.ok /\ req[r].result.code # "none"

\* Every step keeps the rows of the table, in their places.
RowsKept == IsPrefix(users, users')

\* What a list returned is still in the table, and two lists agree on the
\* rows both have seen.
ListedRowsStay ==
  \A r \in Reqs :
    (Answered(r, "list") /\ req[r].resp.status = 200) =>
      /\ IsPrefix(req[r].resp.body, SelectResult(users).rows)
      /\ req[r].prev.valid =>
           \/ IsPrefix(req[r].prev.body, req[r].resp.body)
           \/ IsPrefix(req[r].resp.body, req[r].prev.body)
      /\ (req[r].prev.valid /\ req[r].prev.ver <= req[r].ver) =>
           IsPrefix(req[r].prev.body, req[r].resp.body)

\* C22: no step deletes a row of the users table or changes one, and every
\* row a list call returned is returned unchanged by every list call whose
\* SELECT runs later.
C22_AppendOnly == []ListedRowsStay /\ [][RowsKept]_vars

\* Two lists with a create's INSERT in between: the later has the earlier's
\* rows and one more.
C22_Witness ==
  \E r \in Reqs :
    /\ Answered(r, "list") /\ req[r].resp.status = 200
    /\ req[r].prev.valid
    /\ req[r].prev.body # <<>>
    /\ Len(req[r].resp.body) > Len(req[r].prev.body)

\* C23: the id in a 201 is greater than the id of every 201 that had been
\* sent when the request arrived.
C23_IdsIncrease ==
  \A r \in Reqs :
    (Answered(r, "create") /\ req[r].resp.status = 201) =>
      \A i \in 1..req[r].since : issued[i].id < req[r].resp.body.id

\* A create that arrived after the first 201 is answered 201, with a create
\* that also arrived after the first 201 and failed.
C23_Witness ==
  \E r, q \in Reqs :
    /\ Answered(r, "create") /\ req[r].resp.status = 201 /\ req[r].since = 1
    /\ issued[1].id < req[r].resp.body.id
    /\ Answered(q, "create") /\ req[q].resp.status = 500 /\ req[q].since = 1
    /\ req[q].qry = 1

\* The response is a file (the answer of a list is an array of records).
IsFile(r) == req[r].kind # "list" /\ "file" \in DOMAIN req[r].resp.body

EntryDocument(r) == req[r].resp = [status |-> 200, body |-> [file |-> "index.html"]]

\* C24 as stated: GET / is answered with the entry document, and no request
\* for another path is answered with a file.
C24_OnlyTheEntryDocument ==
  \A r \in Reqs :
    req[r].pc = "done" =>
      /\ (req[r].method = "GET" /\ req[r].path = "/") => EntryDocument(r)
      /\ IsFile(r) => req[r].path = "/"

\* C24: GET / is answered 200 with the entry document without a connection
\* being asked for, whatever the store and the pool are like; a file is sent
\* only to a GET for the root or for the path of a file of public/, and it is
\* the file of that path.
C24_RootAndPublicFiles ==
  \A r \in Reqs :
    req[r].pc = "done" =>
      /\ (req[r].method = "GET" /\ req[r].path = "/") =>
           EntryDocument(r) /\ req[r].acq = 0
      /\ IsFile(r) =>
           /\ req[r].method = "GET"
           /\ req[r].resp.status = 200
           /\ \/ req[r].path \in {"/", "/index.html"} /\ req[r].resp.body.file = "index.html"
              \/ req[r].path = "/app.js" /\ req[r].resp.body.file = "app.js"

\* The entry document is served with the table missing and every connection
\* of the pool gone.
C24_Witness ==
  \E r \in Reqs :
    /\ req[r].pc = "done" /\ req[r].method = "GET" /\ req[r].path = "/"
    /\ EntryDocument(r)
    /\ ~tableExists
    /\ inUse = PoolSize

NoRequestInFlight == \A r \in Reqs : req[r].pc \in {"idle", "done"}

\* C25: an answered request has released the connection it acquired, once,
\* and with no request in flight no connection is checked out of the pool.
C25_ReleasedOncePerCall ==
  /\ \A r \in Reqs : req[r].pc = "done" => req[r].released = req[r].qry
  /\ NoRequestInFlight => inUse = 0

\* Two answered creates with valid bodies and the same email.
SameEmailCreates(r, q) ==
  /\ r # q
  /\ Answered(r, "create") /\ Answered(q, "create")
  /\ ~BodyInvalid(req[r].body) /\ ~BodyInvalid(req[q].body)
  /\ req[r].body.email = req[q].body.email

\* The INSERT of r ran in the store, on a table that can hold its values.
InsertRan(r) ==
  /\ tableExists
  /\ req[r].qry = 1
  /\ req[r].result.code \in {"ok", "ER_DUP_ENTRY"}

\* C26: of two creates with the same email at most one is answered 201; when
\* both INSERTs ran and the email was not in the table before the first of
\* them, exactly one is answered 201 and the table has exactly one row with
\* that email.
C26_OneWinner ==
  \A r, q \in Reqs :
    SameEmailCreates(r, q) =>
      /\ ~(req[r].resp.status = 201 /\ req[q].resp.status = 201)
      /\ Cardinality(RowsWithEmail(req[r].body.email)) <= 1
      /\ (InsertRan(r) /\ InsertRan(q) /\ ~(req[r].dup /\ req[q].dup)) =>
           /\ (req[r].resp.status = 201) # (req[q].resp.status = 201)
           /\ {req[r].resp.status, req[q].resp.status} = {201, 500}
           /\ Cardinality(RowsWithEmail(req[r].body.email)) = 1

\* The two ran concurrently: the loser arrived before the winner's 201 was
\* sent, and the winner's INSERT ran before the loser's.
C26_Witness ==
  \E r, q \in Reqs :
    /\ SameEmailCreates(r, q)
    /\ req[r].resp.status = 201
    /\ req[q].resp.status = 500 /\ req[q].dup /\ InsertRan(q)
    /\ req[q].since < Len(issued)
    /\ issued[Len(issued)] = req[r].resp.body
    /\ req[r].since = req[q].since

\* C27: a list answered 200 returns the table as it was at one moment: the
\* rows of the INSERTs that had taken effect when its SELECT ran, each with
\* the id, name and email the table holds for it, and among them the row of
\* every create whose 201 had been sent by then.
C27_ListSeesWholeRows ==
  \A r \in Reqs :
    (Answered(r, "list") /\ req[r].resp.status = 200) =>
      LET rows == req[r].resp.body
      IN /\ Len(rows) = Len(initial) + req[r].ver
         /\ Len(rows) <= Len(users)
         /\ \A i \in 1..Len(rows) :
              /\ rows[i].id = users[i].id
              /\ rows[i].name = users[i].name
              /\ rows[i].email = users[i].email
         /\ \A i \in 1..req[r].seen : \E j \in 1..Len(rows) : rows[j] = issued[i]

\* A list whose SELECT ran while a create was in flight returned that
\* create's row before any 201 was sent.
C27_Witness ==
  \E r \in Reqs :
    /\ Answered(r, "list") /\ req[r].resp.status = 200
    /\ ~req[r].quiet
    /\ req[r].seen = 0
    /\ Len(req[r].resp.body) = Len(initial) + 1

\* C28: every record of a 200 of GET /api/users has the fields id, name and
\* email and no other, and they are the id, name and email of one row of the
\* table.
C28_ListRecordFields ==
  \A r \in Reqs :
    (Answered(r, "list") /\ req[r].resp.status = 200) =>
      \A i \in 1..Len(req[r].resp.body) :
        LET rec == req[r].resp.body[i]
        IN /\ DOMAIN rec = {"id", "name", "email"}
           /\ \E j \in 1..Len(users) :
                /\ rec.id = users[j].id
                /\ rec.name = users[j].name
                /\ rec.email = users[j].email
                /\ "created_at" \in DOMAIN users[j]

C28_Witness ==
  \E r \in Reqs :
    /\ Answered(r, "list") /\ req[r].resp.status = 200
    /\ Len(req[r].resp.body) = 3
    /\ initial = SeedRows

====
